---- MODULE Spec2Model ----
(***************************************************************************)
(* Model of zengin-rs (src/src/lib.rs): the data loader (Zengin::new,      *)
(* load_*_from_file, parse_*, read_data_file, join_paths) and the query    *)
(* facade (get_bank, get_branch, find_banks_by_*, find_branches_by_*,      *)
(* all_banks, all_branches).                                               *)
(*                                                                         *)
(* Strings are sequences of one-character TLA+ strings.  A Result is a     *)
(* record tagged "Ok" or "Err"; a panic (unwrap of None / Err) is the      *)
(* third outcome, tagged "Panic".  An Option is tagged "Some" or "None".   *)
(***************************************************************************)
EXTENDS Integers, Sequences, FiniteSets, TLC

VARIABLES
    cwd,        \* what env::current_dir() yields in this process
    DATA_DIR,   \* the embedded directory: relative path -> file contents
    zengin,     \* outcome of Zengin::new(), or NotCalled
    pattern,    \* the pattern argument the caller passes to find_*_by_*
    call,       \* the last API call made (operation and arguments)
    ret         \* what the last API call returned

vars == <<cwd, DATA_DIR, zengin, pattern, call, ret>>

\* ---------------------------------------------------------------- bounds
MaxPatLen == 2      \* longest pattern the caller passes

\* ------------------------------------------------------- Result / Option
Ok(v)     == [tag |-> "Ok", val |-> v]
Err(e)    == [tag |-> "Err", err |-> e]
Panic     == [tag |-> "Panic"]
Some(v)   == [tag |-> "Some", val |-> v]
None      == [tag |-> "None"]
NotCalled == [tag |-> "NotCalled"]
NoCall    == [op |-> "none"]

\* HashMap::new(): the map with no keys
EmptyMap == [k \in {} |-> k]

\* ------------------------------------------------------ strings and paths
BANKS_JSON == <<"b","a","n","k","s",".","j","s","o","n">>
BRANCHES   == <<"b","r","a","n","c","h","e","s">>
DOT_JSON   == <<".","j","s","o","n">>

\* format!("{}.json", bank.code)
format_json(code) == code \o DOT_JSON

\* A path is absolute or relative, a sequence of components, and is valid
\* UTF-8 or not (PathBuf holds OS strings).
\* PathBuf::push of a relative component
push(path, part) == [path EXCEPT !.comps = Append(@, part)]

\* PathBuf::to_str
to_str(path) == IF path.utf8 THEN Some(path) ELSE None

RECURSIVE push_all(_, _)
push_all(path, parts) ==
    IF parts = <<>> THEN path
    ELSE push_all(push(path, Head(parts)), Tail(parts))

\* join_paths: starts from env::current_dir()? and pushes every part
join_paths(dir, parts) ==
    IF dir.tag = "Err" THEN Err("Io")
    ELSE Ok(push_all(dir.val, parts))

\* Dir::get_file on the embedded directory: an entry is found only under
\* exactly the path it has relative to the embedded root
get_file(dir, path) ==
    IF path \in DOMAIN dir THEN Some(dir[path]) ELSE None

\* As read_data_file, but a file that is not embedded reads as "{}"
read_data_file_or_empty(dir, file_path) ==
    LET data == get_file(dir, file_path)
    IN  IF data.tag = "None"
        THEN Ok([type |-> "object", members |-> EmptyMap])
        ELSE IF ~data.val.utf8 THEN Err("Utf8")
        ELSE Ok(data.val.text)

\* read_data_file: unwraps the lookup, then decodes the bytes as UTF-8
read_data_file(dir, file_path) ==
    LET data == get_file(dir, file_path)
    IN  IF data.tag = "None" THEN Panic
        ELSE IF ~data.val.utf8 THEN Err("Utf8")
        ELSE Ok(data.val.text)

\* ------------------------------------------------------------ JSON parsing
RecordFields == {"code", "name", "kana", "hira", "roma"}

\* serde's derived Deserialize for Bank / Branch: every one of the five
\* fields must be present and a JSON string; other members are ignored
IsRecord(v) ==
    /\ v.type = "object"
    /\ RecordFields \subseteq DOMAIN v.members
    /\ \A f \in RecordFields : v.members[f].type = "string"

\* As Bank_deserialize, with kana and hira taken from each other's member
Bank_deserialize_swapped(v) ==
    [code |-> v.members["code"].val, name |-> v.members["name"].val,
     kana |-> v.members["hira"].val, hira |-> v.members["kana"].val,
     roma |-> v.members["roma"].val, branches |-> EmptyMap]

\* As Bank_deserialize without skip_deserializing: a "branches" member of
\* the record is taken over
Bank_deserialize_with_branches(v) ==
    [code |-> v.members["code"].val, name |-> v.members["name"].val,
     kana |-> v.members["kana"].val, hira |-> v.members["hira"].val,
     roma |-> v.members["roma"].val,
     branches |-> IF "branches" \in DOMAIN v.members
                  THEN v.members["branches"].members ELSE EmptyMap]

\* #[serde(skip_deserializing)] branches: always BranchMap::default()
Bank_deserialize(v) ==
    [code |-> v.members["code"].val, name |-> v.members["name"].val,
     kana |-> v.members["kana"].val, hira |-> v.members["hira"].val,
     roma |-> v.members["roma"].val, branches |-> EmptyMap]

Branch_deserialize(v) ==
    [code |-> v.members["code"].val, name |-> v.members["name"].val,
     kana |-> v.members["kana"].val, hira |-> v.members["hira"].val,
     roma |-> v.members["roma"].val]

\* serde_json::from_str::<HashMap<String, _>>: a syntax error, a top level
\* that is no object, or a member that is no record, is an error
IsRecordMap(text) ==
    /\ text.type = "object"
    /\ \A k \in DOMAIN text.members : IsRecord(text.members[k])

parse_banks(json_data) ==
    IF IsRecordMap(json_data)
    THEN Ok([k \in DOMAIN json_data.members |->
                Bank_deserialize(json_data.members[k])])
    ELSE Err("Json")

parse_branches(json_data) ==
    IF IsRecordMap(json_data)
    THEN Ok([k \in DOMAIN json_data.members |->
                Branch_deserialize(json_data.members[k])])
    ELSE Err("Json")

load_banks_from_file(dir, file_path) ==
    LET json_data == read_data_file(dir, file_path)
    IN  IF json_data.tag # "Ok" THEN json_data
        ELSE parse_banks(json_data.val)

load_branches_from_file(dir, file_path) ==
    LET json_data == read_data_file(dir, file_path)
    IN  IF json_data.tag # "Ok" THEN json_data
        ELSE parse_branches(json_data.val)

\* ------------------------------------------------------------- Zengin::new
\* One iteration of `for bank in banks.values_mut()`: the branch file is
\* named by bank.code (the record's code, not the map key)
attach_branches(dir, current, bank) ==
    LET branch_file == join_paths(current, <<BRANCHES, format_json(bank.code)>>)
    IN  IF branch_file.tag # "Ok" THEN branch_file
        ELSE LET s == to_str(branch_file.val)
             IN  IF s.tag = "None" THEN Panic
                 ELSE LET branches == load_branches_from_file(dir, s.val)
                      IN  IF branches.tag # "Ok" THEN branches
                          ELSE Ok([bank EXCEPT !.branches = branches.val])

\* The loop, visiting the map's keys in the order the HashMap yields them
RECURSIVE attach_all(_, _, _, _)
attach_all(dir, current, banks, order) ==
    IF order = <<>> THEN Ok(banks)
    ELSE LET k == Head(order)
         IN  IF k \notin DOMAIN banks
             THEN attach_all(dir, current, banks, Tail(order))
             ELSE LET b == attach_branches(dir, current, banks[k])
                  IN  IF b.tag # "Ok" THEN b
                      ELSE attach_all(dir, current,
                                      [banks EXCEPT ![k] = b.val], Tail(order))

Zengin_new(dir, current, order) ==
    LET bank_file == join_paths(current, <<BANKS_JSON>>)
    IN  IF bank_file.tag # "Ok" THEN bank_file
        ELSE LET s == to_str(bank_file.val)
             IN  IF s.tag = "None" THEN Panic
                 ELSE LET banks == load_banks_from_file(dir, s.val)
                      IN  IF banks.tag # "Ok" THEN banks
                          ELSE LET all == attach_all(dir, current, banks.val, order)
                               IN  IF all.tag # "Ok" THEN all
                                   ELSE Ok([banks |-> all.val])

\* ------------------------------------------------- the embedded data files
CODE_0001 == <<"0","0","0","1">>
CODE_0005 == <<"0","0","0","5">>
CODE_001  == <<"0","0","1">>
CODE_002  == <<"0","0","2">>
BankCodes   == {CODE_0001, CODE_0005}
BranchCodes == {CODE_001, CODE_002}

JString(s) == [type |-> "string", val |-> s]
JNumber    == [type |-> "number"]
JObject(m) == [type |-> "object", members |-> m]
JMalformed == [type |-> "malformed"]
JArray     == [type |-> "array"]

\* A well-formed record, the fields a bank or branch index carries
JRecord(code, name, kana) ==
    JObject([code |-> JString(code), name |-> JString(name),
             kana |-> JString(kana), hira |-> JString(name),
             roma |-> JString(<<"m">>)])

OtherCode(code) == IF code = CODE_0001 THEN CODE_0005 ELSE CODE_0001

\* What a bank index may hold under a key: the record of that code, the
\* same with a "branches" member, a record of another code, and a record
\* that is no Bank (a field missing, or a field of the wrong type)
BankEntries(k) ==
    LET good == JRecord(k, <<"a">>, <<"b","a">>)
    IN  { good,
          JObject([f \in DOMAIN good.members \cup {"branches"} |->
                     IF f = "branches"
                     THEN JObject([c \in {CODE_001} |->
                                     JRecord(CODE_001, <<"a">>, <<"b">>)])
                     ELSE good.members[f]]),
          JRecord(OtherCode(k), <<"b">>, <<"a">>),
          IF k = CODE_0001
          THEN JObject([f \in RecordFields \ {"roma"} |-> good.members[f]])
          ELSE JObject([good.members EXCEPT !["name"] = JNumber]) }

BranchEntries(k) ==
    { IF k = CODE_001 THEN JRecord(k, <<"a">>, <<"b">>)
                      ELSE JRecord(k, <<"b","a">>, <<"a">>),
      JObject([code |-> JString(k)]) }

BankDocs ==
    {JMalformed, JArray} \cup
    UNION { { JObject(m) : m \in
                { m \in [ks -> UNION {BankEntries(k) : k \in ks}] :
                    \A k \in ks : m[k] \in BankEntries(k) } } :
            ks \in SUBSET BankCodes }

BranchDocs ==
    {JMalformed} \cup
    UNION { { JObject(m) : m \in
                { m \in [ks -> UNION {BranchEntries(k) : k \in ks}] :
                    \A k \in ks : m[k] \in BranchEntries(k) } } :
            ks \in SUBSET BranchCodes }

Utf8File(text) == [utf8 |-> TRUE, text |-> text]
BadUtf8File    == [utf8 |-> FALSE]
Absent         == [absent |-> TRUE]

RelPath(comps) == [abs |-> FALSE, comps |-> comps, utf8 |-> TRUE]
AbsPath(comps) == [abs |-> TRUE, comps |-> comps, utf8 |-> TRUE]

BanksPath      == RelPath(<<BANKS_JSON>>)
BranchPath(c)  == RelPath(<<BRANCHES, format_json(c)>>)

\* Embedded directories: banks.json and branches/<code>.json, each absent,
\* not UTF-8, or holding a JSON text
Dir(b, b1, b5) ==
    LET all == (BanksPath :> b) @@ (BranchPath(CODE_0001) :> b1)
                 @@ (BranchPath(CODE_0005) :> b5)
        present == {p \in DOMAIN all : all[p] # Absent}
    IN  [p \in present |-> all[p]]

BankFiles   == {Absent, BadUtf8File} \cup {Utf8File(d) : d \in BankDocs}
BranchFiles == {Absent, BadUtf8File} \cup {Utf8File(d) : d \in BranchDocs}

Dirs == {Dir(b, b1, b5) : b \in BankFiles, b1 \in BranchFiles, b5 \in BranchFiles}

\* env::current_dir(): an absolute path, or an error (the directory is gone)
CurrentDirs ==
    { Ok(AbsPath(<<>>)), Ok(AbsPath(<<<<"s","r","v">>>>)),
      Ok([AbsPath(<<<<"s","r","v">>>>) EXCEPT !.utf8 = FALSE]), Err("Io") }

\* The orders in which a HashMap over the bank codes may be iterated
Orders == {<<CODE_0001, CODE_0005>>, <<CODE_0005, CODE_0001>>}

\* ------------------------------------------------------------------ loader
Init ==
    /\ cwd \in CurrentDirs
    /\ DATA_DIR \in Dirs
    /\ zengin = NotCalled
    /\ pattern = <<>>
    /\ call = NoCall
    /\ ret = NotCalled

\* let zengin = Zengin::new();
Call_Zengin_new ==
    /\ zengin = NotCalled
    /\ \E order \in Orders : zengin' = Zengin_new(DATA_DIR, cwd, order)
    /\ call' = [op |-> "Zengin::new"]
    /\ ret' = NotCalled
    /\ UNCHANGED <<cwd, DATA_DIR, pattern>>

\* parse_banks / parse_branches on the text of an embedded file
Call_parse_banks ==
    /\ \E p \in DOMAIN DATA_DIR :
         /\ DATA_DIR[p].utf8
         /\ call' = [op |-> "parse_banks", json_data |-> DATA_DIR[p].text]
         /\ ret' = parse_banks(DATA_DIR[p].text)
    /\ UNCHANGED <<cwd, DATA_DIR, zengin, pattern>>

Call_parse_branches ==
    /\ \E p \in DOMAIN DATA_DIR :
         /\ DATA_DIR[p].utf8
         /\ call' = [op |-> "parse_branches", json_data |-> DATA_DIR[p].text]
         /\ ret' = parse_branches(DATA_DIR[p].text)
    /\ UNCHANGED <<cwd, DATA_DIR, zengin, pattern>>

Next == Call_Zengin_new \/ Call_parse_banks \/ Call_parse_branches

Spec == Init /\ [][Next]_vars

\* ------------------------------------------------------------------- regex
\* The patterns callers pass: the literal a, "." (any character), the
\* postfix "*" and the group opener "(".  No pattern closes a group.
PatChars == {"a", ".", "*", "("}
Patterns == UNION {[1..n -> PatChars] : n \in 0..MaxPatLen}

\* One item per atom of the pattern; an atom followed by "*" repeats
RECURSIVE compile(_, _)
compile(p, i) ==
    IF i > Len(p) THEN <<>>
    ELSE IF p[i] = "*" THEN compile(p, i + 1)
    ELSE <<[c |-> p[i], star |-> (i < Len(p) /\ p[i + 1] = "*")]>>
             \o compile(p, i + 1)

\* As Regex_new, but a group opener is taken as a literal character
Regex_new_lenient(p) ==
    IF \E i \in 1..Len(p) : p[i] = "*" /\ i = 1
    THEN Err("RepetitionMissing")
    ELSE Ok(compile(p, 1))

\* regex::Regex::new: rejects a "*" with nothing to repeat and a group
\* that is never closed
Regex_new(p) ==
    IF \E i \in 1..Len(p) : p[i] = "*" /\ (i = 1 \/ p[i - 1] = "(")
    THEN Err("RepetitionMissing")
    ELSE IF \E i \in 1..Len(p) : p[i] = "("
    THEN Err("GroupUnclosed")
    ELSE Ok(compile(p, 1))

char_match(c, ch) == c = "." \/ c = ch

\* Does the program match a prefix of the text?
RECURSIVE match_here(_, _)
RECURSIVE match_star(_, _, _)
match_here(re, text) ==
    IF re = <<>> THEN TRUE
    ELSE IF re[1].star THEN match_star(re[1].c, Tail(re), text)
    ELSE /\ text # <<>>
         /\ char_match(re[1].c, text[1])
         /\ match_here(Tail(re), Tail(text))

match_star(c, re, text) ==
    \/ match_here(re, text)
    \/ /\ text # <<>>
       /\ char_match(c, text[1])
       /\ match_star(c, re, Tail(text))

\* As is_match, but the match must start at the first character
is_match_anchored(re, text) == match_here(re, text)

\* Regex::is_match: a match may start at any position of the text
is_match(re, text) ==
    \E start \in 0..Len(text) :
        match_here(re, SubSeq(text, start + 1, Len(text)))

\* ------------------------------------------------------------ query facade
\* A reference into a map: the slot it points at and the value seen there
Ref(map, k) == [at |-> k, val |-> map[k]]
Borrow(v)   == [tag |-> "Ref", val |-> v]

\* As HashMap_get, but a code that is not a key is looked up again with
\* zeros padded on the left
HashMap_get_padded(map, code) ==
    LET padded == {k \in DOMAIN map :
                     \E n \in 0..Len(k) :
                        /\ SubSeq(k, n + 1, Len(k)) = code
                        /\ \A i \in 1..n : k[i] = "0"}
    IN  IF code \in DOMAIN map THEN Some(Ref(map, code))
        ELSE IF padded # {} THEN Some(Ref(map, CHOOSE k \in padded : TRUE))
        ELSE None

\* HashMap::get
HashMap_get(map, code) ==
    IF code \in DOMAIN map THEN Some(Ref(map, code)) ELSE None

\* `for v in map.values() { if re.is_match(key_extractor(v)) { push } }`,
\* visiting the keys in the order the HashMap yields them.  A key extractor
\* is the name of the field its closure borrows.
RECURSIVE scan(_, _, _, _, _)
scan(map, re, key_extractor, order, matched) ==
    IF order = <<>> THEN matched
    ELSE LET k == Head(order)
         IN  scan(map, re, key_extractor, Tail(order),
                  IF k \in DOMAIN map /\ is_match(re, map[k][key_extractor])
                  THEN Append(matched, Ref(map, k))
                  ELSE matched)

get_bank(self, code) == HashMap_get(self.banks, code)

find_banks_by(self, pat, key_extractor, order) ==
    LET re == Regex_new(pat)
    IN  IF re.tag # "Ok" THEN re
        ELSE Ok(scan(self.banks, re.val, key_extractor, order, <<>>))

find_banks_by_name(self, pat, order) ==
    find_banks_by(self, pat, "name", order)

find_banks_by_kana(self, pat, order) ==
    find_banks_by(self, pat, "kana", order)

find_banks_by_hira(self, pat, order) ==
    find_banks_by(self, pat, "hira", order)

find_banks_by_roma(self, pat, order) ==
    find_banks_by(self, pat, "roma", order)

all_banks(self) == Borrow(self.banks)

get_branch(self, code) == HashMap_get(self.branches, code)

find_branches_by(self, pat, key_extractor, order) ==
    LET re == Regex_new(pat)
    IN  IF re.tag # "Ok" THEN re
        ELSE Ok(scan(self.branches, re.val, key_extractor, order, <<>>))

find_branches_by_name(self, pat, order) ==
    find_branches_by(self, pat, "name", order)

\* As find_branches_by_hira, with the extractor of find_branches_by_kana
find_branches_by_hira_kana(self, pat, order) ==
    find_branches_by(self, pat, "kana", order)

find_branches_by_hira(self, pat, order) ==
    find_branches_by(self, pat, "hira", order)

find_branches_by_kana(self, pat, order) ==
    find_branches_by(self, pat, "kana", order)

find_branches_by_roma(self, pat, order) ==
    find_branches_by(self, pat, "roma", order)

all_branches(self) == Borrow(self.branches)

\* ------------------------------------------------- the loaded collections
Branch(code, name, kana, hira, roma) ==
    [code |-> code, name |-> name, kana |-> kana, hira |-> hira, roma |-> roma]

Bank(code, name, kana, hira, roma, branches) ==
    [code |-> code, name |-> name, kana |-> kana, hira |-> hira,
     roma |-> roma, branches |-> branches]

\* Two records per key whose four name fields differ from each other
SampleBranches(k) ==
    { Branch(k, <<"a","b">>, <<"b">>, <<"a">>, <<"b","a">>),
      Branch(k, <<"a","b">>, <<"a">>, <<"b">>, <<"b">>) }

\* The branch sets a bank may hold: none, one branch, or two branches that
\* differ in every field but the name
BranchMaps ==
    { m \in UNION { [ks -> UNION {SampleBranches(k) : k \in BranchCodes}] :
                    ks \in {{}, {CODE_001}, BranchCodes} } :
        /\ \A k \in DOMAIN m : m[k] \in SampleBranches(k)
        /\ \A k \in DOMAIN m, l \in DOMAIN m : k # l => m[k].kana # m[l].kana
        /\ DOMAIN m = {CODE_001} => m[CODE_001].kana = <<"b">> }

SampleBanks(k) ==
    { Bank(k, <<"b","a">>, <<"a">>, <<"b">>, <<"a","b">>, m) : m \in BranchMaps }
    \cup
    { Bank(k, <<"b">>, <<"b">>, <<"a">>, <<"a">>, m) : m \in BranchMaps }

BankMaps ==
    UNION { { m \in [ks -> UNION {SampleBanks(k) : k \in ks}] :
                \A k \in ks : m[k] \in SampleBanks(k) } :
            ks \in SUBSET BankCodes }

\* The codes callers look up: the stored ones and an unpadded one
BankLookups   == BankCodes \cup {<<"1">>}
BranchLookups == BranchCodes \cup {<<"1">>}

BranchOrders == {<<CODE_001, CODE_002>>, <<CODE_002, CODE_001>>}

\* ----------------------------------------------------------------- queries
\* A Zengin holding any collection, and the pattern its caller will pass
QueryInit ==
    /\ cwd = Err("Io")
    /\ DATA_DIR = EmptyMap
    /\ zengin \in {Ok([banks |-> m]) : m \in BankMaps}
    /\ pattern \in Patterns
    /\ call = NoCall
    /\ ret = NotCalled

Frame == UNCHANGED <<cwd, DATA_DIR, zengin, pattern>>

Call_get_bank ==
    /\ zengin.tag = "Ok"
    /\ \E code \in BankLookups :
         /\ call' = [op |-> "get_bank", code |-> code]
         /\ ret' = get_bank(zengin.val, code)
    /\ Frame

Call_find_banks_by_name ==
    /\ zengin.tag = "Ok"
    /\ call' = [op |-> "find_banks_by", field |-> "name"]
    /\ \E order \in Orders : ret' = find_banks_by_name(zengin.val, pattern, order)
    /\ Frame

Call_find_banks_by_kana ==
    /\ zengin.tag = "Ok"
    /\ call' = [op |-> "find_banks_by", field |-> "kana"]
    /\ \E order \in Orders : ret' = find_banks_by_kana(zengin.val, pattern, order)
    /\ Frame

Call_find_banks_by_hira ==
    /\ zengin.tag = "Ok"
    /\ call' = [op |-> "find_banks_by", field |-> "hira"]
    /\ \E order \in Orders : ret' = find_banks_by_hira(zengin.val, pattern, order)
    /\ Frame

Call_find_banks_by_roma ==
    /\ zengin.tag = "Ok"
    /\ call' = [op |-> "find_banks_by", field |-> "roma"]
    /\ \E order \in Orders : ret' = find_banks_by_roma(zengin.val, pattern, order)
    /\ Frame

\* As Call_all_banks, but the map is moved out of the Zengin
Call_all_banks_take ==
    /\ zengin.tag = "Ok"
    /\ call' = [op |-> "all_banks"]
    /\ ret' = all_banks(zengin.val)
    /\ zengin' = Ok([banks |-> EmptyMap])
    /\ UNCHANGED <<cwd, DATA_DIR, pattern>>

Call_all_banks ==
    /\ zengin.tag = "Ok"
    /\ call' = [op |-> "all_banks"]
    /\ ret' = all_banks(zengin.val)
    /\ Frame

\* The Bank methods are called on a bank of the collection
Call_get_branch ==
    /\ zengin.tag = "Ok"
    /\ \E b \in DOMAIN zengin.val.banks, code \in BranchLookups :
         /\ call' = [op |-> "get_branch", bank |-> b, code |-> code]
         /\ ret' = get_branch(zengin.val.banks[b], code)
    /\ Frame

Call_find_branches_by_name ==
    /\ zengin.tag = "Ok"
    /\ \E b \in DOMAIN zengin.val.banks, order \in BranchOrders :
         /\ call' = [op |-> "find_branches_by", bank |-> b, field |-> "name"]
         /\ ret' = find_branches_by_name(zengin.val.banks[b], pattern, order)
    /\ Frame

Call_find_branches_by_hira ==
    /\ zengin.tag = "Ok"
    /\ \E b \in DOMAIN zengin.val.banks, order \in BranchOrders :
         /\ call' = [op |-> "find_branches_by", bank |-> b, field |-> "hira"]
         /\ ret' = find_branches_by_hira(zengin.val.banks[b], pattern, order)
    /\ Frame

Call_find_branches_by_kana ==
    /\ zengin.tag = "Ok"
    /\ \E b \in DOMAIN zengin.val.banks, order \in BranchOrders :
         /\ call' = [op |-> "find_branches_by", bank |-> b, field |-> "kana"]
         /\ ret' = find_branches_by_kana(zengin.val.banks[b], pattern, order)
    /\ Frame

Call_find_branches_by_roma ==
    /\ zengin.tag = "Ok"
    /\ \E b \in DOMAIN zengin.val.banks, order \in BranchOrders :
         /\ call' = [op |-> "find_branches_by", bank |-> b, field |-> "roma"]
         /\ ret' = find_branches_by_roma(zengin.val.banks[b], pattern, order)
    /\ Frame

Call_all_branches ==
    /\ zengin.tag = "Ok"
    /\ \E b \in DOMAIN zengin.val.banks :
         /\ call' = [op |-> "all_branches", bank |-> b]
         /\ ret' = all_branches(zengin.val.banks[b])
    /\ Frame

QueryNext ==
    \/ Call_get_bank
    \/ Call_find_banks_by_name
    \/ Call_find_banks_by_kana
    \/ Call_find_banks_by_hira
    \/ Call_find_banks_by_roma
    \/ Call_all_banks
    \/ Call_get_branch
    \/ Call_find_branches_by_name
    \/ Call_find_branches_by_hira
    \/ Call_find_branches_by_kana
    \/ Call_find_branches_by_roma
    \/ Call_all_branches

QuerySpec == QueryInit /\ [][QueryNext]_vars

\* ================================================================== claims
\* --- what a pattern denotes, stated on the pattern itself ---------------
\* A pattern of this alphabet is a valid regular expression iff it opens
\* no group and does not begin with "*"
ValidPattern(p) ==
    /\ \A i \in 1..Len(p) : p[i] # "("
    /\ p # <<>> => p[1] # "*"

\* The number of "*" that follow position i
RECURSIVE Stars(_, _)
Stars(p, i) == IF i < Len(p) /\ p[i + 1] = "*" THEN 1 + Stars(p, i + 1) ELSE 0

\* s, as a whole, is a word of the language of p
RECURSIVE Matches(_, _)
Matches(p, s) ==
    IF p = <<>> THEN s = <<>>
    ELSE LET n    == Stars(p, 1)
             rest == SubSeq(p, 2 + n, Len(p))
             fits(ch) == p[1] = "." \/ p[1] = ch
         IN  IF n > 0
             THEN \E m \in 0..Len(s) :
                     /\ \A i \in 1..m : fits(s[i])
                     /\ Matches(rest, SubSeq(s, m + 1, Len(s)))
             ELSE /\ s # <<>>
                  /\ fits(s[1])
                  /\ Matches(rest, Tail(s))

\* text contains a match of p
ContainsMatch(p, text) ==
    \E i \in 1..(Len(text) + 1) :
        \E j \in (i - 1)..Len(text) : Matches(p, SubSeq(text, i, j))

Loaded  == zengin.val.banks
Refs(r) == {r.val[i] : i \in 1..Len(r.val)}
Distinct(r) == \A i, j \in 1..Len(r.val) : i # j => r.val[i].at # r.val[j].at

\* C1: for a valid pattern, find_banks_by_<field> returns Ok with exactly
\* the banks whose selected field contains a match of the pattern, each
\* once, in any order.
C1_FindBanksExact ==
    (call.op = "find_banks_by" /\ ValidPattern(pattern)) =>
        /\ ret.tag = "Ok"
        /\ Refs(ret) = {Ref(Loaded, k) : k \in
               {k \in DOMAIN Loaded : ContainsMatch(pattern, Loaded[k][call.field])}}
        /\ Distinct(ret)

\* A search that is no full match: one of two banks is found by a pattern
\* that matches only inside its field
C1_Witness ==
    /\ call.op = "find_banks_by"
    /\ ValidPattern(pattern)
    /\ ret.tag = "Ok"
    /\ Len(ret.val) = 1
    /\ Cardinality(DOMAIN Loaded) = 2
    /\ ~Matches(pattern, ret.val[1].val[call.field])
    /\ ~match_here(Regex_new(pattern).val, ret.val[1].val[call.field])

FindOps == {"find_banks_by", "find_branches_by"}

\* C2: an invalid pattern passed to any find_banks_by_* / find_branches_by_*
\* makes the call return the regex error: no list of matches is returned
\* and the collection is unchanged.
C2_InvalidPatternIsError ==
    [][(call'.op \in FindOps /\ ~ValidPattern(pattern')) =>
          /\ ret'.tag = "Err"
          /\ ret'.err \in {"RepetitionMissing", "GroupUnclosed"}
          /\ DOMAIN ret' = {"tag", "err"}
          /\ zengin' = zengin]_vars

\* An unclosed group was passed to a branch search of a bank with branches
C2_Witness ==
    /\ call.op = "find_branches_by"
    /\ \E i \in 1..Len(pattern) : pattern[i] = "("
    /\ DOMAIN Loaded[call.bank].branches # {}
    /\ ret.tag = "Err"

\* C6: get_bank(code) returns the bank stored under exactly that key, and
\* nothing when there is none; get_branch likewise within the bank's own
\* branch set.  Neither fails, neither normalizes the code.
C6_ExactKeyLookup ==
    /\ call.op = "get_bank" =>
          ret = IF call.code \in DOMAIN Loaded
                THEN Some(Ref(Loaded, call.code)) ELSE None
    /\ call.op = "get_branch" =>
          ret = IF call.code \in DOMAIN Loaded[call.bank].branches
                THEN Some(Ref(Loaded[call.bank].branches, call.code)) ELSE None

\* The unpadded code "1" is looked up where "0001" is stored: nothing found
C6_Witness ==
    /\ call.op = "get_bank"
    /\ call.code = <<"1">>
    /\ CODE_0001 \in DOMAIN Loaded
    /\ ret = None

Results(r) == IF r.tag = "Ok" THEN Refs(r) ELSE {r}

\* C8: no query changes the collection, and a repeated query returns the
\* same set of records.
C8_CollectionImmutable ==
    [][/\ zengin' = zengin
       /\ call' = call => Results(ret') = Results(ret)]_vars

\* A query has run on a collection that holds banks with branches
C8_Witness ==
    /\ call.op = "all_banks"
    /\ zengin.tag = "Ok"
    /\ \E k \in DOMAIN Loaded : DOMAIN Loaded[k].branches # {}

\* C9: for a valid pattern, find_branches_by_<field> on a bank returns
\* exactly the branches of that bank's own branch set whose selected field
\* contains a match, and no branch of another bank.
C9_FindBranchesScoped ==
    (call.op = "find_branches_by" /\ ValidPattern(pattern)) =>
        LET own == Loaded[call.bank].branches
        IN  /\ ret.tag = "Ok"
            /\ Refs(ret) = {Ref(own, k) : k \in
                   {k \in DOMAIN own : ContainsMatch(pattern, own[k][call.field])}}
            /\ Distinct(ret)

\* Another bank holds a matching branch under a code this bank lacks, and
\* under a code this bank has; this bank's search returned its own branch
C9_Witness ==
    /\ call.op = "find_branches_by"
    /\ ValidPattern(pattern)
    /\ ret.tag = "Ok"
    /\ Len(ret.val) = 1
    /\ \E o \in DOMAIN Loaded \ {call.bank} :
          /\ \E k \in DOMAIN Loaded[o].branches \ DOMAIN Loaded[call.bank].branches :
                ContainsMatch(pattern, Loaded[o].branches[k][call.field])
          /\ \E k \in DOMAIN Loaded[o].branches \cap DOMAIN Loaded[call.bank].branches :
                Loaded[o].branches[k] # Loaded[call.bank].branches[k]

\* --- the embedded data set, as the loader should see it ------------------
\* A document that maps codes to records of five strings
ValidIndexDocument(d) ==
    /\ d.type = "object"
    /\ \A k \in DOMAIN d.members :
          /\ d.members[k].type = "object"
          /\ \A f \in RecordFields :
                /\ f \in DOMAIN d.members[k].members
                /\ d.members[k].members[f].type = "string"

\* The file is embedded, is UTF-8 and holds a valid index document
GoodFile(path) ==
    /\ path \in DOMAIN DATA_DIR
    /\ DATA_DIR[path].utf8
    /\ ValidIndexDocument(DATA_DIR[path].text)

BankIndex == DATA_DIR[BanksPath].text.members
BranchIndex(code) == DATA_DIR[BranchPath(code)].text.members
IndexedCode(k) == BankIndex[k].members["code"].val

\* The working directory can be read and named
GoodCwd == cwd.tag = "Ok" /\ cwd.val.utf8

\* banks.json and every branches/<code>.json it calls for are well-formed
WellFormedData ==
    /\ GoodFile(BanksPath)
    /\ \A k \in DOMAIN BankIndex : GoodFile(BranchPath(IndexedCode(k)))

SameFields(rec, doc) == \A f \in RecordFields : rec[f] = doc.members[f].val

\* C3: when the bank index names a bank code that has no branch index
\* file, Zengin::new returns a not-found error value.
C3_MissingBranchFileIsErr ==
    ( /\ zengin # NotCalled
      /\ GoodCwd
      /\ GoodFile(BanksPath)
      /\ \E k \in DOMAIN BankIndex :
            BranchPath(IndexedCode(k)) \notin DOMAIN DATA_DIR )
    => zengin.tag = "Err"

\* C4: when Zengin::new returns Ok, the collection holds every bank of the
\* bank index, each with the branch set parsed from the branch index of its
\* code; when the bank index or a branch index it calls for is unreadable
\* or malformed, no Zengin value is produced.
C4_NoPartialDataset ==
    /\ zengin.tag = "Ok" =>
          /\ WellFormedData
          /\ DOMAIN Loaded = DOMAIN BankIndex
          /\ \A k \in DOMAIN Loaded :
                /\ SameFields(Loaded[k], BankIndex[k])
                /\ DOMAIN Loaded[k].branches = DOMAIN BranchIndex(Loaded[k].code)
                /\ \A c \in DOMAIN Loaded[k].branches :
                      SameFields(Loaded[k].branches[c],
                                 BranchIndex(Loaded[k].code)[c])
    /\ (zengin # NotCalled /\ ~WellFormedData) => zengin.tag \in {"Err", "Panic"}

\* Zengin::new has run on a good bank index one of whose branch indexes is
\* embedded but malformed, and produced no Zengin
C4_Witness ==
    /\ zengin # NotCalled
    /\ GoodCwd
    /\ GoodFile(BanksPath)
    /\ \E k \in DOMAIN BankIndex :
          /\ BranchPath(IndexedCode(k)) \in DOMAIN DATA_DIR
          /\ ~GoodFile(BranchPath(IndexedCode(k)))
    /\ zengin.tag # "Ok"

\* C5: when banks.json and every branches/<code>.json it calls for are
\* embedded and well-formed, Zengin::new returns Ok, whatever the working
\* directory, and the collection holds each indexed bank with its fields.
C5_NewSucceedsOnGoodData ==
    (zengin # NotCalled /\ GoodCwd /\ WellFormedData) =>
        /\ zengin.tag = "Ok"
        /\ \A k \in DOMAIN BankIndex :
              /\ k \in DOMAIN Loaded
              /\ SameFields(Loaded[k], BankIndex[k])

ParseOps == {"parse_banks", "parse_branches"}

\* C7: parsing a valid index document gives a mapping with exactly the
\* document's keys, and looking up a key gives a record whose five fields
\* are those of the document's entry; for parse_banks and parse_branches.
C7_ParseRoundTrip ==
    (call.op \in ParseOps /\ ValidIndexDocument(call.json_data)) =>
        /\ ret.tag = "Ok"
        /\ DOMAIN ret.val = DOMAIN call.json_data.members
        /\ \A k \in DOMAIN ret.val :
              /\ HashMap_get(ret.val, k).tag = "Some"
              /\ SameFields(HashMap_get(ret.val, k).val.val,
                            call.json_data.members[k])

\* A bank index of two banks was parsed
C7_Witness ==
    /\ call.op = "parse_banks"
    /\ ValidIndexDocument(call.json_data)
    /\ DOMAIN call.json_data.members = BankCodes
    /\ ret.tag = "Ok"

\* C10: every bank parse_banks produces has an empty branch set, also when
\* its record carries a "branches" member; only a Zengin that Zengin::new
\* returned holds banks with branches, the ones read from the branch index.
C10_BranchesNotFromRecord ==
    /\ (call.op = "parse_banks" /\ ret.tag = "Ok") =>
          \A k \in DOMAIN ret.val : ret.val[k].branches = EmptyMap
    /\ zengin.tag = "Ok" =>
          \A k \in DOMAIN Loaded :
             Loaded[k].branches # EmptyMap =>
                /\ GoodFile(BranchPath(Loaded[k].code))
                /\ DOMAIN Loaded[k].branches = DOMAIN BranchIndex(Loaded[k].code)

\* A bank index with a record that carries "branches" was parsed
C10_Witness ==
    /\ call.op = "parse_banks"
    /\ ret.tag = "Ok"
    /\ \E k \in DOMAIN call.json_data.members :
          /\ "branches" \in DOMAIN call.json_data.members[k].members
          /\ call.json_data.members[k].members["branches"].members # EmptyMap
====
